---- MODULE Spec2Model ----
(***************************************************************************)
(* Model of src/plugins/console/public/lib/mappings/mappings.js: the       *)
(* autocomplete metadata store (perIndexTypes, perAliasIndices, templates) *)
(* and the poller that refreshes it (retrieveAutoCompleteInfo).            *)
(***************************************************************************)
EXTENDS Integers, Sequences, FiniteSets, TLC

(***************************************************************************)
(* JavaScript values.  A value is a record: t is its typeof, s the text of *)
(* a string or boolean, e the entries of an object in key order, extra the *)
(* number of further keys of an object that are not enumerated in e.       *)
(***************************************************************************)
Undefined == [t |-> "undefined", s |-> "", e |-> <<>>, extra |-> 0]

Str(x) == [t |-> "string", s |-> x, e |-> <<>>, extra |-> 0]

False == [t |-> "boolean", s |-> "false", e |-> <<>>, extra |-> 0]

Obj(entries) == [t |-> "object", s |-> "", e |-> entries, extra |-> 0]

\* an array of strings; e holds its items
Arr(items) == [t |-> "array", s |-> "", e |-> items, extra |-> 0]

\* Ordered maps (a JavaScript object's own string keys, in insertion order)
\* are sequences of <<key, value>> pairs with distinct keys.
Keys(o) == [i \in 1..Len(o) |-> o[i][1]]

Has(o, k) == \E i \in 1..Len(o) : o[i][1] = k

Lookup(o, k) == o[CHOOSE i \in 1..Len(o) : o[i][1] = k][2]

Put(o, k, v) ==
  IF Has(o, k)
  THEN [i \in 1..Len(o) |-> IF o[i][1] = k THEN <<k, v>> ELSE o[i]]
  ELSE Append(o, <<k, v>>)

\* v[k] for a value v that is not null or undefined
Get(v, k) == IF v.t = "object" /\ Has(v.e, k) THEN Lookup(v.e, k) ELSE Undefined

Truthy(v) ==
  CASE v.t = "undefined" -> FALSE
    [] v.t = "string" -> v.s # ""
    [] v.t = "boolean" -> v.s = "true"
    [] OTHER -> TRUE

\* String(v), as used by the + operator
StringOf(v) ==
  CASE v.t = "undefined" -> "undefined"
    [] v.t = "object" -> "[object Object]"
    [] OTHER -> v.s

\* The characters of the strings that reach Object.entries: the literal
\* '{}' of retrieveMappings and its one-character substrings.
Chars(x) == IF x = "{}" THEN <<"{", "}">> ELSE IF x = "" THEN <<>> ELSE <<x>>

IndexKey(i) == CASE i = 1 -> "0" [] i = 2 -> "1" [] OTHER -> "2"

ObjectEntries(v) ==
  CASE v.t = "object" -> v.e
    [] v.t = "string" ->
         [i \in 1..Len(Chars(v.s)) |-> <<IndexKey(i), Str(Chars(v.s)[i])>>]
    [] OTHER -> <<>>

ObjectKeysLength(v) == Len(ObjectEntries(v)) + v.extra

\* _.uniqBy(list, f => f.name + ':' + f.type): first occurrences are kept
FieldKey(f) == f.name \o ":" \o StringOf(f.type)

\* no deduplication
uniqByNot(list) == list

RECURSIVE uniqBy(_)
uniqBy(list) ==
  IF list = <<>> THEN <<>>
  ELSE LET init == uniqBy(SubSeq(list, 1, Len(list) - 1))
           last == list[Len(list)]
       IN IF \E i \in 1..Len(init) : FieldKey(init[i]) = FieldKey(last)
          THEN init
          ELSE Append(init, last)

(***************************************************************************)
(* Field/type normalizer                                                   *)
(***************************************************************************)
\* applyPathSettings that prefixes whatever the path is
applyPathSettingsAlways(fieldName, fieldMapping, nestedFieldNames) ==
  [i \in 1..Len(nestedFieldNames) |->
     [nestedFieldNames[i] EXCEPT !.name = fieldName \o "." \o @]]

applyPathSettings(fieldName, fieldMapping, nestedFieldNames) ==
  LET pathType == IF Truthy(Get(fieldMapping, "path"))
                  THEN Get(fieldMapping, "path")
                  ELSE Str("full")
  IN IF pathType = Str("full")
     THEN [i \in 1..Len(nestedFieldNames) |->
             [nestedFieldNames[i] EXCEPT !.name = fieldName \o "." \o @]]
     ELSE nestedFieldNames

RECURSIVE getFieldNamesFromFieldMapping(_, _)
RECURSIVE getFieldNamesFromProperties(_)
RECURSIVE flatMapFields(_)

\* Object.entries(o).flatMap(([fieldName, fieldMapping]) => ...)
flatMapFields(entries) ==
  IF entries = <<>> THEN <<>>
  ELSE getFieldNamesFromFieldMapping(entries[1][1], entries[1][2])
         \o flatMapFields(Tail(entries))

getFieldNamesFromFieldMapping(fieldName, fieldMapping) ==
  IF Get(fieldMapping, "enabled") = False THEN <<>>
  ELSE IF Truthy(Get(fieldMapping, "properties"))
  THEN applyPathSettings(fieldName, fieldMapping,
         getFieldNamesFromProperties(Get(fieldMapping, "properties")))
  ELSE LET ret == [name |-> IF Truthy(Get(fieldMapping, "index_name"))
                            THEN StringOf(Get(fieldMapping, "index_name"))
                            ELSE fieldName,
                   type |-> Get(fieldMapping, "type")]
       IN IF Truthy(Get(fieldMapping, "fields"))
          THEN <<ret>> \o applyPathSettings(fieldName, fieldMapping,
                 flatMapFields(ObjectEntries(Get(fieldMapping, "fields"))))
          ELSE <<ret>>

getFieldNamesFromProperties(properties) ==
  uniqBy(flatMapFields(
    ObjectEntries(IF properties = Undefined THEN Obj(<<>>) ELSE properties)))

(***************************************************************************)
(* Metadata store.  A store is a record of the three module variables;     *)
(* every mutator maps the store before the call to the store after it.     *)
(***************************************************************************)
EmptyStore == [perIndexTypes |-> <<>>, perAliasIndices |-> <<>>, templates |-> <<>>]

\* getIndices that adds the alias names whatever includeAliases is
getIndicesWithAliases(st, includeAliases) ==
  Keys(st.perIndexTypes) \o Keys(st.perAliasIndices)

getIndices(st, includeAliases) ==
  Keys(st.perIndexTypes)
    \o (IF includeAliases THEN Keys(st.perAliasIndices) ELSE <<>>)

loadTemplates(st, templatesObject) ==
  [st EXCEPT !.templates =
     Keys(ObjectEntries(IF templatesObject = Undefined THEN Obj(<<>>)
                        ELSE templatesObject))]

RECURSIVE normalizeIndexMapping(_, _)
\* the inner forEach of loadMappings over Object.entries(indexMapping)
normalizeIndexMapping(entries, normalizedIndexMappings) ==
  IF entries = <<>> THEN normalizedIndexMappings
  ELSE normalizeIndexMapping(Tail(entries),
         Put(normalizedIndexMappings, entries[1][1],
             IF entries[1][1] = "properties"
             THEN getFieldNamesFromProperties(entries[1][2])
             ELSE <<>>))

RECURSIVE loadMappingsEntries(_, _)
\* the outer forEach of loadMappings over Object.entries(mappings)
loadMappingsEntries(entries, types) ==
  IF entries = <<>> THEN types
  ELSE LET raw == entries[1][2]
           indexMapping ==
             IF Truthy(Get(raw, "mappings")) /\ ObjectKeysLength(raw) = 1
             THEN Get(raw, "mappings")
             ELSE raw
       IN loadMappingsEntries(Tail(entries),
            Put(types, entries[1][1],
                normalizeIndexMapping(ObjectEntries(indexMapping), <<>>)))

loadMappings(st, mappings) ==
  [st EXCEPT !.perIndexTypes = loadMappingsEntries(ObjectEntries(mappings), <<>>)]

RECURSIVE addAliasesUnfiltered(_, _, _)
\* addAliases without the test alias === index
addAliasesUnfiltered(index, names, perAlias) ==
  IF names = <<>> THEN perAlias
  ELSE addAliasesUnfiltered(index, Tail(names),
         Put(perAlias, names[1],
             Append(IF Has(perAlias, names[1])
                    THEN Lookup(perAlias, names[1]) ELSE <<>>,
                    index)))

RECURSIVE addAliases(_, _, _)
\* the inner forEach of loadAliases over the alias names of one index
addAliases(index, names, perAlias) ==
  IF names = <<>> THEN perAlias
  ELSE addAliases(index, Tail(names),
         IF names[1] = index THEN perAlias
         ELSE Put(perAlias, names[1],
                  Append(IF Has(perAlias, names[1])
                         THEN Lookup(perAlias, names[1]) ELSE <<>>,
                         index)))

RECURSIVE loadAliasesEntries(_, _)
\* the outer forEach of loadAliases over Object.entries(aliases)
loadAliasesEntries(entries, st) ==
  IF entries = <<>> THEN st
  ELSE LET index == entries[1][1]
           omdexAliases == entries[1][2]
           declared == IF Truthy(Get(omdexAliases, "aliases"))
                       THEN Get(omdexAliases, "aliases")
                       ELSE Obj(<<>>)
       IN loadAliasesEntries(Tail(entries),
            [st EXCEPT
               !.perIndexTypes = IF Has(@, index) THEN @ ELSE Put(@, index, <<>>),
               !.perAliasIndices = addAliases(index, Keys(ObjectEntries(declared)), @)])

\* loadAliases without its first statement (perAliasIndices = {})
loadAliasesMerging(st, aliases) ==
  LET loaded == loadAliasesEntries(ObjectEntries(aliases), st)
  IN [loaded EXCEPT !.perAliasIndices = Put(@, "_all", getIndices(loaded, FALSE))]

loadAliases(st, aliases) ==
  LET loaded == loadAliasesEntries(ObjectEntries(aliases),
                                   [st EXCEPT !.perAliasIndices = <<>>])
  IN [loaded EXCEPT !.perAliasIndices = Put(@, "_all", getIndices(loaded, FALSE))]

clear(st) == EmptyStore

(***************************************************************************)
(* Alias expander and field lookup                                         *)
(***************************************************************************)
\* The names of the model in the order Array.prototype.sort gives strings
\* (by UTF-16 code unit: digits, upper case, "_", lower case).
NameOrder == <<"0", "1", "_all", "a", "b", "c", "p", "x", "zz">>

Rank(name) == CHOOSE i \in 1..Len(NameOrder) : NameOrder[i] = name

RECURSIVE insertSorted(_, _)
insertSorted(name, sorted) ==
  IF sorted = <<>> THEN <<name>>
  ELSE IF Rank(name) <= Rank(sorted[1]) THEN <<name>> \o sorted
  ELSE <<sorted[1]>> \o insertSorted(name, Tail(sorted))

\* ret.sort() left out
sortNamesNot(list) == list

RECURSIVE sortNames(_)
\* ret.sort()
sortNames(list) ==
  IF list = <<>> THEN <<>> ELSE insertSorted(list[1], sortNames(Tail(list)))

RECURSIVE dropRepeats(_)
\* the reduce of expandAliases: a value equal to its predecessor is dropped
dropRepeats(list) ==
  IF Len(list) <= 1 THEN list
  ELSE LET init == dropRepeats(SubSeq(list, 1, Len(list) - 1))
       IN IF list[Len(list) - 1] = list[Len(list)] THEN init
          ELSE Append(init, list[Len(list)])

\* a map callback that resolves an alias to its indices and the name _all
resolveWithAll(st, iOrA) ==
  IF Has(st.perAliasIndices, iOrA)
  THEN Append(Lookup(st.perAliasIndices, iOrA), "_all")
  ELSE <<iOrA>>

\* the map callback of expandAliases
resolve(st, iOrA) ==
  IF Has(st.perAliasIndices, iOrA) THEN Lookup(st.perAliasIndices, iOrA)
  ELSE <<iOrA>>

RECURSIVE resolveAll(_, _)
\* [].concat.apply([], indicesOrAliases.map(...))
resolveAll(st, list) ==
  IF list = <<>> THEN <<>>
  ELSE resolve(st, list[1]) \o resolveAll(st, Tail(list))

expandAliases(st, indicesOrAliases) ==
  IF ~Truthy(indicesOrAliases) THEN indicesOrAliases
  ELSE LET list == IF indicesOrAliases.t = "string"
                   THEN <<indicesOrAliases.s>> ELSE indicesOrAliases.e
           ret == dropRepeats(sortNames(resolveAll(st, list)))
       IN IF Len(ret) > 1 THEN Arr(ret)
          ELSE IF Len(ret) = 1 THEN Str(ret[1]) ELSE Undefined

\* !types || types.length === 0 || types.includes(type)
Includes(list, name) ==
  \/ ~Truthy(list)
  \/ list.t = "array" /\ (list.e = <<>> \/ \E i \in 1..Len(list.e) : list.e[i] = name)

RECURSIVE concatAll(_)
\* [].concat.apply([], ret)
concatAll(lists) ==
  IF lists = <<>> THEN <<>> ELSE lists[1] \o concatAll(Tail(lists))

RECURSIVE getFields(_, _, _)
RECURSIVE getFieldsOfEach(_, _, _)
\* the forEach of the multi index mode: getFields(index, types) per index
getFieldsOfEach(st, names, types) ==
  IF names = <<>> THEN <<>>
  ELSE <<getFields(st, Str(names[1]), types)>> \o getFieldsOfEach(st, Tail(names), types)

getFields(st, indices, types) ==
  LET expanded == expandAliases(st, indices)
  IN IF expanded.t = "string"
     THEN IF ~Has(st.perIndexTypes, expanded.s) THEN <<>>
          ELSE LET typeDict == Lookup(st.perIndexTypes, expanded.s)
               IN IF types.t = "string"
                  THEN uniqBy(IF Has(typeDict, types.s)
                              THEN Lookup(typeDict, types.s) ELSE <<>>)
                  ELSE uniqBy(concatAll(
                         [i \in 1..Len(SelectSeq(typeDict,
                                          LAMBDA entry : Includes(types, entry[1]))) |->
                            SelectSeq(typeDict,
                              LAMBDA entry : Includes(types, entry[1]))[i][2]]))
     ELSE uniqBy(concatAll(getFieldsOfEach(st,
            SelectSeq(Keys(st.perIndexTypes),
                      LAMBDA index : Includes(expanded, index)),
            types)))

(***************************************************************************)
(* Inputs: the responses of the cluster and the settings objects           *)
(***************************************************************************)
\* { a: { properties: { user: { properties: { name: { type: 'text' } } },
\*                      tag: { type: 'keyword' } } } }
MappingsA ==
  Obj(<< <<"a", Obj(<< <<"properties", Obj(<<
      <<"user", Obj(<< <<"properties", Obj(<<
          <<"name", Obj(<< <<"type", Str("text")>> >>)>> >>)>> >>)>>,
      <<"tag", Obj(<< <<"type", Str("keyword")>> >>)>> >>)>> >>)>> >>)

\* { b: { mappings: { properties: { id: { type: 'long' } } } } }
MappingsB ==
  Obj(<< <<"b", Obj(<< <<"mappings", Obj(<< <<"properties", Obj(<<
      <<"id", Obj(<< <<"type", Str("long")>> >>)>> >>)>> >>)>> >>)>> >>)

\* 10 * 1024 * 1024, the cap of retrieveMappings on Object.keys(mappings).length
MappingSizeCap == 10 * 1024 * 1024

\* a mappings response with more keys than the cap: one index is enumerated,
\* the others are counted only
MappingsHuge == [MappingsA EXCEPT !.extra = MappingSizeCap]

\* { a: { aliases: { x: {}, a: {} } }, c: {} }
AliasesA ==
  Obj(<< <<"a", Obj(<< <<"aliases", Obj(<< <<"x", Obj(<<>>)>>,
                                           <<"a", Obj(<<>>)>> >>)>> >>)>>,
         <<"c", Obj(<<>>)>> >>)

\* { b: { aliases: { x: {} } } }
AliasesB ==
  Obj(<< <<"b", Obj(<< <<"aliases", Obj(<< <<"x", Obj(<<>>)>> >>)>> >>)>> >>)

\* { t1: {} }
TemplatesA == Obj(<< <<"t1", Obj(<<>>)>> >>)

\* { a: { properties: { user: { properties: { name: { type: 'text' } } },
\*                      'user.name': { type: 'text' },
\*                      tag: { type: 'keyword' } } },
\*   b: { properties: { tag: { type: 'keyword' }, id: { type: 'long' } } } }
MappingsD ==
  Obj(<< <<"a", Obj(<< <<"properties", Obj(<<
      <<"user", Obj(<< <<"properties", Obj(<<
          <<"name", Obj(<< <<"type", Str("text")>> >>)>> >>)>> >>)>>,
      <<"user.name", Obj(<< <<"type", Str("text")>> >>)>>,
      <<"tag", Obj(<< <<"type", Str("keyword")>> >>)>> >>)>> >>)>>,
         <<"b", Obj(<< <<"properties", Obj(<<
      <<"tag", Obj(<< <<"type", Str("keyword")>> >>)>>,
      <<"id", Obj(<< <<"type", Str("long")>> >>)>> >>)>> >>)>> >>)

\* { p: { properties: {
\*     user: { path: 'just_name', properties: { name: { type: 'text' } } },
\*     addr: { path: 'full', properties: { city: { type: 'keyword' } } },
\*     title: { type: 'text', fields: { raw: { type: 'keyword' } } },
\*     label: { type: 'text', path: 'just_name',
\*              fields: { lc: { type: 'keyword' } } } } } }
MappingsP ==
  Obj(<< <<"p", Obj(<< <<"properties", Obj(<<
      <<"user", Obj(<< <<"path", Str("just_name")>>,
                       <<"properties", Obj(<<
          <<"name", Obj(<< <<"type", Str("text")>> >>)>> >>)>> >>)>>,
      <<"addr", Obj(<< <<"path", Str("full")>>,
                       <<"properties", Obj(<<
          <<"city", Obj(<< <<"type", Str("keyword")>> >>)>> >>)>> >>)>>,
      <<"title", Obj(<< <<"type", Str("text")>>,
                        <<"fields", Obj(<<
          <<"raw", Obj(<< <<"type", Str("keyword")>> >>)>> >>)>> >>)>>,
      <<"label", Obj(<< <<"type", Str("text")>>,
                        <<"path", Str("just_name")>>,
                        <<"fields", Obj(<<
          <<"lc", Obj(<< <<"type", Str("keyword")>> >>)>> >>)>> >>)>> >>)>> >>)>> >>)

\* { a: { aliases: { x: {} } }, b: { aliases: { a: {} } } }
AliasesC ==
  Obj(<< <<"a", Obj(<< <<"aliases", Obj(<< <<"x", Obj(<<>>)>> >>)>> >>)>>,
         <<"b", Obj(<< <<"aliases", Obj(<< <<"a", Obj(<<>>)>> >>)>> >>)>> >>)

\* The state names the documents; Doc gives the document of a name.
Doc(name) ==
  CASE name = "MappingsA" -> MappingsA
    [] name = "MappingsB" -> MappingsB
    [] name = "MappingsHuge" -> MappingsHuge
    [] name = "AliasesA" -> AliasesA
    [] name = "AliasesB" -> AliasesB
    [] name = "MappingsD" -> MappingsD
    [] name = "MappingsP" -> MappingsP
    [] name = "AliasesC" -> AliasesC
    [] name = "TemplatesA" -> TemplatesA
    [] OTHER -> Obj(<<>>)

\* arguments of direct calls of the mutators
MappingsInputs == {"Empty", "MappingsA", "MappingsB"}

AliasesInputs == {"Empty", "AliasesA", "AliasesB"}

TemplatesInputs == {"Empty", "TemplatesA"}

\* arguments of the loads that precede the lookups
QueryMappings == {"MappingsA", "MappingsD", "MappingsP"}

QueryAliases == {"AliasesA", "AliasesC"}

\* arguments of expandAliases: undefined, a name, a list of names
ExpandInputs ==
  { Undefined, Str("a"), Str("x"), Str("_all"), Str("zz"),
    Arr(<<"x", "a">>), Arr(<<"c", "x", "b", "c">>), Arr(<<>>) }

\* arguments of getFields
IndicesInputs == {Undefined, Str("a"), Str("x"), Str("p"), Arr(<<"b", "a">>)}

TypesInputs == {Undefined, Str("properties"), Arr(<<"properties">>)}

\* What the cluster answers to GET _mapping, _aliases and _template
Clusters ==
  { [fields |-> "MappingsA", indices |-> "AliasesA", templates |-> "TemplatesA"],
    [fields |-> "MappingsHuge", indices |-> "Empty", templates |-> "Empty"] }

SettingsKeys == <<"fields", "indices", "templates">>

\* settingsToRetrieve[k] is true, false or anything else (here: unset)
Setting(f, i, t) == [fields |-> f, indices |-> i, templates |-> t]

AllTrue == Setting("true", "true", "true")

SettingsObjects ==
  { AllTrue,
    Setting("false", "false", "false"),
    Setting("unset", "unset", "unset"),
    Setting("true", "false", "unset"),
    Setting("unset", "true", "false"),
    Setting("false", "unset", "true") }

\* the settings objects the poller specification draws from
SavedSettings == {Setting("true", "true", "unset"), Setting("false", "unset", "true")}

\* Largest number of poll cycles and pending timers that exist together
MaxInFlight == 2

VARIABLES
  perIndexTypes,    \* index name -> type name -> field descriptors
  perAliasIndices,  \* alias name -> index names
  templates,        \* template names
  pollTimeoutId,    \* the module's timer handle; 0 is undefined
  timers,           \* pending setTimeout callbacks: id -> closure
  cycles,           \* Promise.allSettled calls not settled yet: id -> cycle
  microtasks,       \* continuations of awaits on resolved promises, FIFO
  polling,          \* what settings.getPolling() returns
  autocomplete,     \* what settings.getAutocomplete() returns
  cluster,          \* what opensearch.send resolves to, per path
  store0,           \* the store in the initial state
  lastCall          \* the latest direct call of a store mutator

vars == <<perIndexTypes, perAliasIndices, templates, pollTimeoutId, timers,
          cycles, microtasks, polling, autocomplete, cluster, store0, lastCall>>

storeVars == <<perIndexTypes, perAliasIndices, templates>>

pollerVars == <<pollTimeoutId, timers, cycles, microtasks>>

settingsVars == <<polling, autocomplete>>

Store == [perIndexTypes |-> perIndexTypes, perAliasIndices |-> perAliasIndices,
          templates |-> templates]

SetStore(st) ==
  /\ perIndexTypes' = st.perIndexTypes
  /\ perAliasIndices' = st.perAliasIndices
  /\ templates' = st.templates

NoCall == [op |-> "none", arg |-> "none", before |-> EmptyStore]

\* f without the key id
Without(f, id) == [i \in DOMAIN f \ {id} |-> f[i]]

\* the handle setTimeout returns differs from every pending one
FreshId(f) == CHOOSE i \in 1..(Cardinality(DOMAIN f) + 1) : i \notin DOMAIN f

(***************************************************************************)
(* Poller                                                                  *)
(***************************************************************************)
\* The promise retrieveSettings returns: the one of opensearch.send, or a
\* promise already resolved with {} or with undefined.
\* retrieveSettings sending the request unless the setting is false
retrieveSettingsUnlessFalse(settingsKey, settingsToRetrieve) ==
  IF settingsToRetrieve[settingsKey] # "false"
  THEN [sent |-> TRUE, value |-> Undefined]
  ELSE [sent |-> FALSE, value |-> Obj(<<>>)]

retrieveSettings(settingsKey, settingsToRetrieve) ==
  IF settingsToRetrieve[settingsKey] = "true"
  THEN [sent |-> TRUE, value |-> Undefined]
  ELSE IF settingsToRetrieve[settingsKey] = "false"
  THEN [sent |-> FALSE, value |-> Obj(<<>>)]
  ELSE [sent |-> FALSE, value |-> Undefined]

\* clearTimeout on the oldest pending timer instead of pollTimeoutId
clearSubscriptionsOldest(pending) ==
  IF pollTimeoutId # 0 /\ DOMAIN pending # {}
  THEN Without(pending, CHOOSE id \in DOMAIN pending :
                          \A other \in DOMAIN pending : id <= other)
  ELSE pending

\* clearTimeout(pollTimeoutId) when pollTimeoutId is set
clearSubscriptions(pending) ==
  IF pollTimeoutId # 0 THEN Without(pending, pollTimeoutId) ELSE pending

\* The part of retrieveMappings / retrieveAliases / retrieveTemplates after
\* the await: the store it leaves and whether the async function fulfils.
\* settled is [ok |-> the awaited promise fulfilled, value |-> with what].
retrieveMappings(st, settled) ==
  IF ~settled.ok \/ settled.value = Undefined
  THEN [store |-> st, status |-> "rejected"]
  ELSE LET mappings == Get(settled.value, "body")
           maxMappingSize == ObjectKeysLength(mappings) > MappingSizeCap
           mappingsResponse == IF maxMappingSize THEN Str("{}") ELSE mappings
       IN [store |-> IF Truthy(mappings) THEN loadMappings(st, mappingsResponse)
                     ELSE st,
           status |-> "fulfilled"]

retrieveAliases(st, settled) ==
  IF ~settled.ok \/ settled.value = Undefined
  THEN [store |-> st, status |-> "rejected"]
  ELSE LET aliases == Get(settled.value, "body")
       IN [store |-> IF Truthy(aliases) THEN loadAliases(st, aliases) ELSE st,
           status |-> "fulfilled"]

retrieveTemplates(st, settled) ==
  IF ~settled.ok \/ settled.value = Undefined
  THEN [store |-> st, status |-> "rejected"]
  ELSE LET body == Get(settled.value, "body")
       IN [store |-> IF Truthy(body) THEN loadTemplates(st, body) ELSE st,
           status |-> "fulfilled"]

retrieveSection(settingsKey, st, settled) ==
  CASE settingsKey = "fields" -> retrieveMappings(st, settled)
    [] settingsKey = "indices" -> retrieveAliases(st, settled)
    [] OTHER -> retrieveTemplates(st, settled)

IsSettled(status) == status \in {"fulfilled", "rejected"}

\* The synchronous part of retrieveAutoCompleteInfo, called with the timers
\* pending at that moment: the three requests are issued or skipped.
\* caller is "outside" or "timer"; scheduledBy is the settingsToRetrieve of the
\* call whose timer callback makes this call (the call's own when from outside).
StartCycle(pending, settingsToRetrieve, caller, scheduledBy) ==
  LET id == FreshId(cycles)
      promise == [k \in {"fields", "indices", "templates"} |->
                    retrieveSettings(k, settingsToRetrieve)]
      awaits == SelectSeq([i \in 1..3 |-> <<id, SettingsKeys[i]>>],
                          LAMBDA m : ~promise[m[2]].sent)
  IN /\ timers' = clearSubscriptions(pending)
     /\ cycles' = cycles @@ (id :> [s |-> settingsToRetrieve,
                                    caller |-> caller,
                                    scheduledBy |-> scheduledBy,
                                    status |-> [k \in DOMAIN promise |->
                                      IF promise[k].sent THEN "sent" ELSE "queued"]])
     /\ microtasks' = microtasks \o awaits
     /\ UNCHANGED pollTimeoutId

\* Promise.all in place of Promise.allSettled: no callback after a rejection
AllFulfilled(status) == \A k \in DOMAIN status : status[k] = "fulfilled"

\* Promise.allSettled resolves once each of the three promises has settled
AllSettled(status) == \A k \in DOMAIN status : IsSettled(status[k])

\* Resume for functions that skip their loader once another one of the
\* cycle has failed
ResumeFailFast(id, settingsKey, settled) ==
  \E r \in {IF \E k \in DOMAIN cycles[id].status :
                   cycles[id].status[k] = "rejected"
              THEN [store |-> Store,
                    status |-> retrieveSection(settingsKey, Store, settled).status]
              ELSE retrieveSection(settingsKey, Store, settled)} :
    LET status == [cycles[id].status EXCEPT ![settingsKey] = r.status]
    IN /\ SetStore(r.store)
       /\ cycles' = [cycles EXCEPT ![id].status = status]
       /\ microtasks' =
            (IF microtasks # <<>> /\ Head(microtasks) = <<id, settingsKey>>
             THEN Tail(microtasks) ELSE microtasks)
            \o (IF AllSettled(status) THEN << <<id, "then">> >> ELSE <<>>)
       /\ UNCHANGED <<timers, pollTimeoutId>>

\* One of the three async functions of cycle id resumes after its await and
\* settles.  When it is the last of the three, Promise.allSettled resolves
\* and its .then callback is queued.
Resume(id, settingsKey, settled) ==
  \E r \in {retrieveSection(settingsKey, Store, settled)} :
    LET status == [cycles[id].status EXCEPT ![settingsKey] = r.status]
    IN /\ SetStore(r.store)
       /\ cycles' = [cycles EXCEPT ![id].status = status]
       /\ microtasks' =
            (IF microtasks # <<>> /\ Head(microtasks) = <<id, settingsKey>>
             THEN Tail(microtasks) ELSE microtasks)
            \o (IF AllSettled(status) THEN << <<id, "then">> >> ELSE <<>>)
       /\ UNCHANGED <<timers, pollTimeoutId>>

\* a .then callback that sets the timer only while settings.getPolling()
ScheduleNextIfPolling(id) ==
  LET timer == FreshId(timers)
  IN /\ cycles' = Without(cycles, id)
     /\ IF polling
        THEN /\ timers' = timers @@ (timer :> [settingsToRetrieve |-> cycles[id].s])
             /\ pollTimeoutId' = timer
        ELSE UNCHANGED <<timers, pollTimeoutId>>
     /\ microtasks' = Tail(microtasks)
     /\ UNCHANGED storeVars

\* The .then callback of Promise.allSettled: the next timer is set and its
\* handle stored.  The callback closes over settingsToRetrieve.
ScheduleNext(id) ==
  LET timer == FreshId(timers)
  IN /\ cycles' = Without(cycles, id)
     /\ timers' = timers @@ (timer :> [settingsToRetrieve |-> cycles[id].s])
     /\ pollTimeoutId' = timer
     /\ microtasks' = Tail(microtasks)
     /\ UNCHANGED storeVars

InFlight(pending) == Cardinality(DOMAIN cycles) + Cardinality(DOMAIN pending)

\* retrieveAutoCompleteInfo(http, settings, settingsToRetrieve, dataSourceId)
\* called from outside the module
RetrieveAutoCompleteInfo(settingsToRetrieve) ==
  /\ InFlight(clearSubscriptions(timers)) < MaxInFlight
  /\ StartCycle(timers, settingsToRetrieve, "outside", settingsToRetrieve)
  /\ UNCHANGED <<storeVars, settingsVars, cluster, store0, lastCall>>

\* The head of the microtask queue runs: the continuation of an await on an
\* already resolved promise, or a .then callback.
Microtask ==
  /\ microtasks # <<>>
  /\ LET id == Head(microtasks)[1]
         job == Head(microtasks)[2]
     IN IF job = "then"
        THEN ScheduleNext(id)
        ELSE Resume(id, job,
                    [ok |-> TRUE,
                     value |-> retrieveSettings(job, cycles[id].s).value])
  /\ UNCHANGED <<settingsVars, cluster, store0, lastCall>>

\* what the promise of opensearch.send fulfils with: { body }
Response(settingsKey) ==
  [ok |-> TRUE, value |-> Obj(<< <<"body", Doc(cluster[settingsKey])>> >>)]

\* a response that is dropped when another cycle is in flight
FetchFulfilledUnlessSuperseded(id, settingsKey) ==
  /\ microtasks = <<>>
  /\ id \in DOMAIN cycles
  /\ cycles[id].status[settingsKey] = "sent"
  /\ IF DOMAIN cycles # {id}
     THEN LET status == [cycles[id].status EXCEPT ![settingsKey] = "fulfilled"]
          IN /\ cycles' = [cycles EXCEPT ![id].status = status]
             /\ microtasks' = IF AllSettled(status) THEN << <<id, "then">> >> ELSE <<>>
             /\ UNCHANGED <<storeVars, timers, pollTimeoutId>>
     ELSE Resume(id, settingsKey, Response(settingsKey))
  /\ UNCHANGED <<settingsVars, cluster, store0, lastCall>>

\* opensearch.send resolves
FetchFulfilled(id, settingsKey) ==
  /\ microtasks = <<>>
  /\ id \in DOMAIN cycles
  /\ cycles[id].status[settingsKey] = "sent"
  /\ Resume(id, settingsKey, Response(settingsKey))
  /\ UNCHANGED <<settingsVars, cluster, store0, lastCall>>

\* opensearch.send rejects
FetchRejected(id, settingsKey) ==
  /\ microtasks = <<>>
  /\ id \in DOMAIN cycles
  /\ cycles[id].status[settingsKey] = "sent"
  /\ Resume(id, settingsKey, [ok |-> FALSE, value |-> Undefined])
  /\ UNCHANGED <<settingsVars, cluster, store0, lastCall>>

\* a setTimeout callback that passes on the settingsToRetrieve of its closure
TimerFiresStale(id) ==
  /\ microtasks = <<>>
  /\ id \in DOMAIN timers
  /\ IF polling
     THEN StartCycle(Without(timers, id), timers[id].settingsToRetrieve, "timer",
                     timers[id].settingsToRetrieve)
     ELSE /\ timers' = Without(timers, id)
          /\ UNCHANGED <<cycles, microtasks, pollTimeoutId>>
  /\ UNCHANGED <<storeVars, settingsVars, cluster, store0, lastCall>>

\* a setTimeout callback that does not ask settings.getPolling()
TimerFiresAnyway(id) ==
  /\ microtasks = <<>>
  /\ id \in DOMAIN timers
  /\ StartCycle(Without(timers, id), autocomplete, "timer",
                timers[id].settingsToRetrieve)
  /\ UNCHANGED <<storeVars, settingsVars, cluster, store0, lastCall>>

\* the setTimeout callback of retrieveAutoCompleteInfo
TimerFires(id) ==
  /\ microtasks = <<>>
  /\ id \in DOMAIN timers
  /\ IF polling
     THEN StartCycle(Without(timers, id), autocomplete, "timer",
                     timers[id].settingsToRetrieve)
     ELSE /\ timers' = Without(timers, id)
          /\ UNCHANGED <<cycles, microtasks, pollTimeoutId>>
  /\ UNCHANGED <<storeVars, settingsVars, cluster, store0, lastCall>>

\* clearSubscriptions() called from outside the module
ClearSubscriptions ==
  /\ timers' = clearSubscriptions(timers)
  /\ UNCHANGED <<storeVars, pollTimeoutId, cycles, microtasks, settingsVars,
                 cluster, store0, lastCall>>

\* The collaborator settings: the user changes the saved settings
SetPolling(b) ==
  /\ polling' = b
  /\ UNCHANGED <<storeVars, pollerVars, autocomplete, cluster, store0, lastCall>>

SetAutocomplete(s) ==
  /\ autocomplete' = s
  /\ UNCHANGED <<storeVars, pollerVars, polling, cluster, store0, lastCall>>

Init ==
  /\ perIndexTypes = <<>>
  /\ perAliasIndices = <<>>
  /\ templates = <<>>
  /\ pollTimeoutId = 0
  /\ timers = <<>>
  /\ cycles = <<>>
  /\ microtasks = <<>>
  /\ polling \in BOOLEAN
  /\ autocomplete \in SavedSettings
  /\ cluster \in Clusters
  /\ store0 = EmptyStore
  /\ lastCall = NoCall

Next ==
  \/ \E s \in SavedSettings : RetrieveAutoCompleteInfo(s)
  \/ Microtask
  \/ \E id \in DOMAIN cycles : \E i \in 1..3 : FetchFulfilled(id, SettingsKeys[i])
  \/ \E id \in DOMAIN cycles : \E i \in 1..3 : FetchRejected(id, SettingsKeys[i])
  \/ \E id \in DOMAIN timers : TimerFires(id)
  \/ ClearSubscriptions
  \/ \E b \in BOOLEAN : SetPolling(b)
  \/ \E s \in SavedSettings : SetAutocomplete(s)

Spec == Init /\ [][Next]_vars

(***************************************************************************)
(* The store mutators called directly, from the initial state              *)
(***************************************************************************)
CallLoadMappings(mappings) ==
  /\ \E st \in {loadMappings(Store, Doc(mappings))} : SetStore(st)
  /\ lastCall' = [op |-> "loadMappings", arg |-> mappings, before |-> Store]
  /\ UNCHANGED <<pollerVars, settingsVars, cluster, store0>>

CallLoadAliases(aliases) ==
  /\ \E st \in {loadAliases(Store, Doc(aliases))} : SetStore(st)
  /\ lastCall' = [op |-> "loadAliases", arg |-> aliases, before |-> Store]
  /\ UNCHANGED <<pollerVars, settingsVars, cluster, store0>>

CallLoadTemplates(templatesObject) ==
  /\ \E st \in {loadTemplates(Store, Doc(templatesObject))} : SetStore(st)
  /\ lastCall' = [op |-> "loadTemplates", arg |-> templatesObject, before |-> Store]
  /\ UNCHANGED <<pollerVars, settingsVars, cluster, store0>>

CallClear ==
  /\ SetStore(clear(Store))
  /\ lastCall' = [op |-> "clear", arg |-> "none", before |-> Store]
  /\ UNCHANGED <<pollerVars, settingsVars, cluster, store0>>

NextStore ==
  \/ \E m \in MappingsInputs : CallLoadMappings(m)
  \/ \E a \in AliasesInputs : CallLoadAliases(a)
  \/ \E t \in TemplatesInputs : CallLoadTemplates(t)
  \/ CallClear

SpecStore == Init /\ [][NextStore]_vars

(***************************************************************************)
(* The lookups, called on the stores that loads have left                  *)
(***************************************************************************)
CallExpandAliases(indicesOrAliases) ==
  /\ lastCall' = [op |-> "expandAliases", arg |-> indicesOrAliases,
                  before |-> Store,
                  result |-> expandAliases(Store, indicesOrAliases)]
  /\ UNCHANGED <<storeVars, pollerVars, settingsVars, cluster, store0>>

CallGetFields(indices, types) ==
  /\ lastCall' = [op |-> "getFields", arg |-> <<indices, types>>,
                  before |-> Store,
                  result |-> getFields(Store, indices, types)]
  /\ UNCHANGED <<storeVars, pollerVars, settingsVars, cluster, store0>>

\* the poller is not started and its settings and cluster play no part
InitQuery ==
  Init /\ ~polling /\ autocomplete.fields = "true" /\ cluster.fields = "MappingsA"

NextQuery ==
  \/ \E m \in QueryMappings : CallLoadMappings(m)
  \/ \E a \in QueryAliases : CallLoadAliases(a)
  \/ \E x \in ExpandInputs : CallExpandAliases(x)
  \/ \E indices \in IndicesInputs : \E types \in TypesInputs :
       CallGetFields(indices, types)

SpecQuery == InitQuery /\ [][NextQuery]_vars

(***************************************************************************)
(* One poll cycle: a single call of retrieveAutoCompleteInfo on a store    *)
(* that earlier loads have filled, against a cluster that does not change. *)
(***************************************************************************)
CycleStores ==
  {EmptyStore} \cup
  { loadTemplates(loadAliases(loadMappings(EmptyStore, Doc(m)), Doc(a)), Doc(t)) :
      m \in {"MappingsA", "MappingsB"}, a \in {"AliasesA", "AliasesB"},
      t \in TemplatesInputs }

CycleClusters ==
  [fields : {"MappingsA", "MappingsB", "MappingsHuge"},
   indices : {"AliasesA", "AliasesB"},
   templates : TemplatesInputs]

Idle ==
  /\ pollTimeoutId = 0
  /\ timers = <<>>
  /\ cycles = <<>>
  /\ microtasks = <<>>

InitCycle ==
  /\ \E st \in CycleStores :
       /\ perIndexTypes = st.perIndexTypes
       /\ perAliasIndices = st.perAliasIndices
       /\ templates = st.templates
       /\ store0 = st
  /\ Idle
  /\ polling \in BOOLEAN
  /\ autocomplete = AllTrue
  /\ cluster \in CycleClusters
  /\ lastCall = NoCall

NextCycle ==
  \/ Idle /\ \E s \in SettingsObjects : RetrieveAutoCompleteInfo(s)
  \/ Microtask
  \/ \E id \in DOMAIN cycles : \E i \in 1..3 : FetchFulfilled(id, SettingsKeys[i])
  \/ \E id \in DOMAIN cycles : \E i \in 1..3 : FetchRejected(id, SettingsKeys[i])

SpecCycle == InitCycle /\ [][NextCycle]_vars

\* a request that was sent and is not answered fails in the end
RequestFails ==
  \E id \in DOMAIN cycles : \E i \in 1..3 : FetchRejected(id, SettingsKeys[i])

\* Every queued microtask runs and every request settles: it is answered
\* (FetchFulfilled stays possible while it is pending) or else it fails.
SpecCycleFair == SpecCycle /\ WF_vars(Microtask) /\ WF_vars(RequestFails)

(***************************************************************************)
(* Properties                                                              *)
(***************************************************************************)
Sections == {"fields", "indices", "templates"}

\* the cycle has received the response of section k and handed it to its loader
Loaded(id, k) == cycles[id].s[k] = "true" /\ cycles[id].status[k] = "fulfilled"

\* the entries of an alias map other than the reserved alias _all
DeclaredAliases(perAlias) == SelectSeq(perAlias, LAMBDA entry : entry[1] # "_all")

\* C1: under any interleaving of retrieveAutoCompleteInfo calls, fetch
\* completions and timer firings, at most one poll timer is pending at any
\* time (two calls made before either cycle has settled leave one timer).
AtMostOnePendingTimer == Cardinality(DOMAIN timers) <= 1

\* C2: a cycle run with settingsToRetrieve[k] === false sends no request for
\* k, and once its three functions have settled the store section of k is
\* empty whatever it held before: perIndexTypes has no index (unless the same
\* cycle loads aliases, which adds their indices), perAliasIndices no alias
\* besides _all, templates no name.
FalseSettingClearsSection ==
  \A id \in DOMAIN cycles : \A k \in Sections :
    cycles[id].s[k] = "false" =>
      /\ cycles[id].status[k] # "sent"
      /\ AllSettled(cycles[id].status) =>
           CASE k = "fields" ->
                  perIndexTypes = <<>> \/ cycles[id].s["indices"] = "true"
             [] k = "indices" -> DeclaredAliases(perAliasIndices) = <<>>
             [] OTHER -> templates = <<>>

\* The store a cycle leaves when its three responses are handled in the
\* order mappings, aliases, templates, from the store the cycle started on.
StoreInCallOrder ==
  LET afterMappings == retrieveMappings(store0, Response("fields")).store
      afterAliases == retrieveAliases(afterMappings, Response("indices")).store
  IN retrieveTemplates(afterAliases, Response("templates")).store

\* C3: for one cycle with all three settings true, started from a given
\* store with fixed responses, the store after the three fetches have been
\* fulfilled is the same for every order in which they complete: it is the
\* store the order mappings, aliases, templates gives.
CompletionOrderIrrelevant ==
  \A id \in DOMAIN cycles :
    (cycles[id].s = AllTrue /\ \A k \in Sections : Loaded(id, k))
      => Store = StoreInCallOrder

\* the section of the store that the response of k is loaded into
Section(st, k) ==
  CASE k = "fields" -> st.perIndexTypes
    [] k = "indices" -> st.perAliasIndices
    [] OTHER -> st.templates

\* The response of section k is in the store: every index of a mappings
\* response within the size cap is in perIndexTypes with its normalized
\* types, the declared aliases are those of the aliases response, the
\* template names are those of the templates response.
ResponseInStore(k) ==
  CASE k = "fields" ->
         LET expected == loadMappings(EmptyStore,
                           IF ObjectKeysLength(Doc(cluster.fields)) > MappingSizeCap
                           THEN Obj(<<>>) ELSE Doc(cluster.fields)).perIndexTypes
         IN \A i \in 1..Len(expected) :
              /\ Has(perIndexTypes, expected[i][1])
              /\ Lookup(perIndexTypes, expected[i][1]) = expected[i][2]
    [] k = "indices" ->
         DeclaredAliases(perAliasIndices) =
           DeclaredAliases(loadAliases(EmptyStore, Doc(cluster.indices)).perAliasIndices)
    [] OTHER -> templates = loadTemplates(EmptyStore, Doc(cluster.templates)).templates

\* cycle id has settled with all settings true and exactly section k rejected
OnlyRejected(id, k) ==
  /\ cycles[id].s = AllTrue
  /\ cycles[id].status[k] = "rejected"
  /\ \A j \in Sections \ {k} : cycles[id].status[j] = "fulfilled"

\* C4 as stated: in a cycle whose three settings are true, if the fetch of
\* one section is rejected the responses of the other two are still loaded,
\* and the section whose fetch failed keeps the content it had before the
\* cycle.
RejectedSectionKeepsContent ==
  \A id \in DOMAIN cycles : \A k \in Sections :
    OnlyRejected(id, k) =>
      /\ \A j \in Sections \ {k} : ResponseInStore(j)
      /\ Section(Store, k) = Section(store0, k)

\* perIndexTypes before the cycle, followed by an empty type map for every
\* index of the aliases response that it lacked
WithAliasIndices(types, aliases) ==
  types \o [i \in 1..Len(SelectSeq(Keys(ObjectEntries(aliases)),
                                   LAMBDA index : ~Has(types, index))) |->
              <<SelectSeq(Keys(ObjectEntries(aliases)),
                          LAMBDA index : ~Has(types, index))[i], <<>> >>]

\* C4 amended: in a cycle whose three settings are true, if the fetch of one
\* section is rejected the responses of the other two are still loaded; a
\* failed aliases or templates section keeps the content it had before the
\* cycle, and after a failed mappings fetch perIndexTypes is what it was
\* before the cycle plus an empty entry for each index of the aliases
\* response that it lacked.
RejectedSectionIsolated ==
  \A id \in DOMAIN cycles : \A k \in Sections :
    OnlyRejected(id, k) =>
      /\ \A j \in Sections \ {k} : ResponseInStore(j)
      /\ Section(Store, k) =
           IF k = "fields"
           THEN WithAliasIndices(store0.perIndexTypes, Doc(cluster.indices))
           ELSE Section(store0, k)

\* C4 witness: the mappings fetch alone was rejected and loading the aliases
\* response has added an index to perIndexTypes
MappingsRejectedAliasesLoaded ==
  \E id \in DOMAIN cycles :
    /\ OnlyRejected(id, "fields")
    /\ perIndexTypes # store0.perIndexTypes
    /\ templates # store0.templates

\* C5: after a call of retrieveAutoCompleteInfo, provided each fetch it
\* issues settles (fulfilled or rejected), a timer for the next poll cycle is
\* eventually scheduled, also when one or all of the fetches are rejected.
CycleSchedulesTimer == (cycles # <<>>) ~> (timers # <<>>)

\* C5 witness: a timer is pending after a cycle with all settings true that
\* left the empty store empty although every response would have changed
\* it: its three fetches were rejected.
TimerAfterAllRejected ==
  /\ pollTimeoutId \in DOMAIN timers
  /\ timers[pollTimeoutId].settingsToRetrieve = AllTrue
  /\ cluster.templates = "TemplatesA"
  /\ store0 = EmptyStore
  /\ Store = EmptyStore

\* the .then callback of cycle id runs in this step
Settles(id) == id \in DOMAIN cycles /\ id \notin DOMAIN cycles'

\* C6 as stated: when the three fetches of a cycle have settled, a timer for
\* the next cycle is scheduled if and only if settings.getPolling() returns
\* true at that moment; with polling off no timer is added.
TimerOnlyWhilePolling ==
  [][\A id \in 1..MaxInFlight :
       Settles(id) => ((DOMAIN timers' # DOMAIN timers) <=> polling)]_vars

\* C6 amended: when the three fetches of a cycle have settled, a timer for
\* the next cycle is scheduled and its handle stored in pollTimeoutId,
\* whether settings.getPolling() returns true or false at that moment.
TimerWhateverPolling ==
  [][\A id \in 1..MaxInFlight :
       Settles(id) => /\ pollTimeoutId' \in DOMAIN timers' \ DOMAIN timers
                      /\ DOMAIN timers \subseteq DOMAIN timers']_vars

\* C6 witness: polling is off (it does not change in a single cycle) and the
\* settled cycle has scheduled a timer
TimerWhilePollingOff == ~polling /\ pollTimeoutId \in DOMAIN timers

\* C7: a cycle started by the timer fetches according to what
\* settings.getAutocomplete() returns when the timer fires, not according
\* to the settingsToRetrieve of the call that scheduled the timer.
TimerUsesCurrentSettings ==
  [][\A id \in DOMAIN cycles' \ DOMAIN cycles :
       cycles'[id].caller = "timer" =>
         /\ cycles'[id].s = autocomplete
         /\ \A k \in Sections :
              cycles'[id].status[k] = "sent" <=> autocomplete[k] = "true"]_vars

\* C7 witness: a cycle started by the timer whose settings differ from the
\* settingsToRetrieve of the call that scheduled the timer
TimerCycleWithChangedSettings ==
  \E id \in DOMAIN cycles :
    cycles[id].caller = "timer" /\ cycles[id].s # cycles[id].scheduledBy

\* C8: a mappings response over the size cap is treated as empty: once the
\* mappings part of the cycle has completed (and before any aliases response
\* of the cycle adds its indices) perIndexTypes is what loadMappings({})
\* leaves, without index entries.
OversizedMappingsTreatedAsEmpty ==
  \A id \in DOMAIN cycles :
    ( /\ Loaded(id, "fields")
      /\ ObjectKeysLength(Doc(cluster.fields)) > MappingSizeCap
      /\ ~Loaded(id, "indices") )
      => perIndexTypes = loadMappings(Store, Obj(<<>>)).perIndexTypes

LoadDependsOnArgumentOnly ==
  /\ lastCall.op = "loadMappings" =>
       perIndexTypes = loadMappings(EmptyStore, Doc(lastCall.arg)).perIndexTypes
  /\ lastCall.op = "loadAliases" =>
       perAliasIndices = loadAliases(EmptyStore, Doc(lastCall.arg)).perAliasIndices
  /\ lastCall.op = "loadTemplates" =>
       templates = loadTemplates(EmptyStore, Doc(lastCall.arg)).templates

\* C10 amended: loadMappings and loadTemplates replace their section by one
\* that the argument alone determines.  loadAliases replaces perAliasIndices
\* too: its aliases other than _all are determined by the argument alone,
\* none of the earlier map survives, but _all lists the indices
\* perIndexTypes held before the call followed by the new ones of the
\* argument.
LoadReplacesSection ==
  /\ lastCall.op = "loadMappings" =>
       perIndexTypes = loadMappings(EmptyStore, Doc(lastCall.arg)).perIndexTypes
  /\ lastCall.op = "loadAliases" =>
       /\ DeclaredAliases(perAliasIndices) =
            DeclaredAliases(loadAliases(EmptyStore, Doc(lastCall.arg)).perAliasIndices)
       /\ Has(perAliasIndices, "_all")
       /\ Lookup(perAliasIndices, "_all") =
            Keys(WithAliasIndices(lastCall.before.perIndexTypes, Doc(lastCall.arg)))
  /\ lastCall.op = "loadTemplates" =>
       templates = loadTemplates(EmptyStore, Doc(lastCall.arg)).templates

\* C10 witness: loadAliases has run on a store that held other aliases and
\* an index its argument does not name
AliasesReloaded ==
  /\ lastCall.op = "loadAliases"
  /\ DeclaredAliases(lastCall.before.perAliasIndices) # <<>>
  /\ DeclaredAliases(lastCall.before.perAliasIndices) # DeclaredAliases(perAliasIndices)
  /\ \E i \in 1..Len(lastCall.before.perIndexTypes) :
       ~Has(ObjectEntries(Doc(lastCall.arg)), lastCall.before.perIndexTypes[i][1])

\* the elements of a list
Range(list) == {list[i] : i \in 1..Len(list)}

\* C11: in every state reachable by calls of loadMappings, loadAliases,
\* loadTemplates and clear, every index name in the list of an alias of
\* perAliasIndices (the reserved alias _all included) is a key of
\* perIndexTypes.
AliasTargetsAreIndices ==
  \A i \in 1..Len(perAliasIndices) :
    \A index \in Range(perAliasIndices[i][2]) : Has(perIndexTypes, index)

\* C12: right after loadAliases(A), from any store, perAliasIndices._all is
\* getIndices(false), the list of the keys of perIndexTypes and nothing else.
AllIsIndexList ==
  lastCall.op = "loadAliases" =>
    /\ Has(perAliasIndices, "_all")
    /\ Lookup(perAliasIndices, "_all") = getIndices(Store, FALSE)
    /\ getIndices(Store, FALSE) = Keys(perIndexTypes)

\* C12 witness: loadAliases has run on a store that held indices and has
\* recorded aliases besides _all
AllRecomputed ==
  /\ lastCall.op = "loadAliases"
  /\ lastCall.before.perIndexTypes # <<>>
  /\ DeclaredAliases(perAliasIndices) # <<>>
  /\ Len(perIndexTypes) > Len(lastCall.before.perIndexTypes)

\* the aliases document declares, for some index, an alias with the name
\* of that index
DeclaresSelfAlias(aliases) ==
  \E i \in 1..Len(ObjectEntries(aliases)) :
    Has(ObjectEntries(Get(ObjectEntries(aliases)[i][2], "aliases")),
        ObjectEntries(aliases)[i][1])

\* C13: after loadAliases(A) no alias declared in A has its own name in its
\* list: an index that declares an alias with its own name is not recorded
\* as a target of that alias.
SelfAliasSuppressed ==
  lastCall.op = "loadAliases" =>
    \A i \in 1..Len(DeclaredAliases(perAliasIndices)) :
      DeclaredAliases(perAliasIndices)[i][1]
        \notin Range(DeclaredAliases(perAliasIndices)[i][2])

\* C13 witness: the loaded document declares an alias with the name of its
\* index, and the other aliases of that index are recorded
SelfAliasLoaded ==
  /\ lastCall.op = "loadAliases"
  /\ DeclaresSelfAlias(Doc(lastCall.arg))
  /\ DeclaredAliases(perAliasIndices) # <<>>

\* the names in a result or an argument of expandAliases
Names(v) ==
  CASE v.t = "string" -> {v.s}
    [] v.t = "array" -> Range(v.e)
    [] OTHER -> {}

\* no name listed for an alias of perAliasIndices is an alias name itself
NoAliasIsTarget ==
  \A i \in 1..Len(perAliasIndices) :
    \A name \in Range(perAliasIndices[i][2]) : ~Has(perAliasIndices, name)

\* C14 as stated: for every store reachable through loadMappings and
\* loadAliases and every input x, expanding the result of expandAliases(x)
\* again yields the same set of names.
ExpandIdempotent ==
  lastCall.op = "expandAliases" =>
    Names(expandAliases(Store, lastCall.result)) = Names(lastCall.result)

\* C14 amended: in every such store where no name listed for an alias is
\* itself an alias name, expanding the result of expandAliases(x) again
\* yields the same set of names, for every input x.
ExpandIdempotentWithoutChains ==
  (lastCall.op = "expandAliases" /\ NoAliasIsTarget) =>
    Names(expandAliases(Store, lastCall.result)) = Names(lastCall.result)

\* C14 witness: an alias was expanded to an index in a store without alias
\* chains
AliasExpanded ==
  /\ lastCall.op = "expandAliases"
  /\ NoAliasIsTarget
  /\ lastCall.arg = Str("x")
  /\ lastCall.result = Str("a")

\* what the names of an argument of expandAliases resolve to: the list of an
\* alias for an alias name, the name itself otherwise
Resolved(v) ==
  UNION { IF Has(perAliasIndices, name)
          THEN Range(Lookup(perAliasIndices, name)) ELSE {name} :
          name \in Names(v) }

\* C15: for an input that is a name or a non-empty list of names,
\* expandAliases returns the resolved names sorted and without duplicates:
\* a list when there is more than one resolved name, the bare string when
\* there is one.
ExpandSortedDeduped ==
  (lastCall.op = "expandAliases" /\ Names(lastCall.arg) # {}) =>
    IF Cardinality(Resolved(lastCall.arg)) > 1
    THEN /\ lastCall.result.t = "array"
         /\ Range(lastCall.result.e) = Resolved(lastCall.arg)
         /\ \A i \in 1..Len(lastCall.result.e) : \A j \in 1..Len(lastCall.result.e) :
              i < j => Rank(lastCall.result.e[i]) < Rank(lastCall.result.e[j])
    ELSE /\ lastCall.result.t = "string"
         /\ {lastCall.result.s} = Resolved(lastCall.arg)

\* C15 witness: a list given out of order, with a repeated name and an
\* alias, was expanded to a shorter list
ListExpanded ==
  /\ lastCall.op = "expandAliases"
  /\ lastCall.arg = Arr(<<"c", "x", "b", "c">>)
  /\ Has(perAliasIndices, "x")
  /\ lastCall.result.t = "array"
  /\ Len(lastCall.result.e) = 3

\* no two descriptors of the list have the same (name, type) pair
Distinct(list) ==
  \A i \in 1..Len(list) : \A j \in 1..Len(list) :
    i # j => <<list[i].name, list[i].type>> # <<list[j].name, list[j].type>>

\* the field list perIndexTypes holds for an entry <<index, type map>>
FieldsOf(entry) ==
  IF Has(entry[2], "properties") THEN Lookup(entry[2], "properties") ELSE <<>>

\* C16: after any sequence of loadMappings and loadAliases calls, no field
\* list stored in perIndexTypes and no result of getFields(indices, types)
\* holds two descriptors with the same (name, type) pair.
FieldListsDistinct ==
  /\ \A i \in 1..Len(perIndexTypes) : \A t \in 1..Len(perIndexTypes[i][2]) :
       Distinct(perIndexTypes[i][2][t][2])
  /\ lastCall.op = "getFields" => Distinct(lastCall.result)

\* C16 witness: getFields has returned a descriptor that two indices hold,
\* and one index was loaded from a mapping that yields a descriptor twice
FieldsMerged ==
  /\ lastCall.op = "getFields"
  /\ \E i \in 1..Len(perIndexTypes) : \E j \in 1..Len(perIndexTypes) :
       /\ i # j
       /\ Range(FieldsOf(perIndexTypes[i])) \cap Range(FieldsOf(perIndexTypes[j]))
            \cap Range(lastCall.result) # {}
  /\ \E i \in 1..Len(perIndexTypes) :
       [name |-> "user.name", type |-> Str("text")]
         \in Range(FieldsOf(perIndexTypes[i]))
  /\ \E i \in 1..Len(perIndexTypes) : Has(ObjectEntries(MappingsD), perIndexTypes[i][1])
       /\ Len(FieldsOf(perIndexTypes[i])) = 2

\* the fields nested in a field mapping: its properties, else its fields
NestedOf(fieldMapping) ==
  IF Truthy(Get(fieldMapping, "properties"))
  THEN ObjectEntries(Get(fieldMapping, "properties"))
  ELSE ObjectEntries(Get(fieldMapping, "fields"))

\* path is absent or "full"
FullPath(fieldMapping) ==
  Get(fieldMapping, "path") \in {Undefined, Str("full")}

\* C17: for a field f with nested properties or multi-fields, every nested
\* descriptor is named f.nested when the path of f is absent or "full" and
\* keeps its own name when the path is present and not "full"; getFields
\* returns the descriptors so named (user.name of type text for an index
\* whose field user has the property name).
PathPolicy ==
  /\ lastCall.op = "loadMappings" =>
       \A i \in 1..Len(ObjectEntries(Doc(lastCall.arg))) :
         LET index == ObjectEntries(Doc(lastCall.arg))[i][1]
             fields == ObjectEntries(Get(ObjectEntries(Doc(lastCall.arg))[i][2],
                                         "properties"))
             stored == Range(FieldsOf(<<index, Lookup(perIndexTypes, index)>>))
         IN \A f \in 1..Len(fields) : \A n \in 1..Len(NestedOf(fields[f][2])) :
              LET type == Get(NestedOf(fields[f][2])[n][2], "type")
                  short == NestedOf(fields[f][2])[n][1]
                  long == fields[f][1] \o "." \o short
              IN IF FullPath(fields[f][2])
                 THEN /\ [name |-> long, type |-> type] \in stored
                      /\ [name |-> short, type |-> type] \notin stored
                 ELSE /\ [name |-> short, type |-> type] \in stored
                      /\ [name |-> long, type |-> type] \notin stored
  /\ ( /\ lastCall.op = "getFields"
       /\ lastCall.arg = <<Str("a"), Undefined>>
       /\ ~Has(perAliasIndices, "a")
       /\ Has(perIndexTypes, "a")
       /\ Lookup(perIndexTypes, "a") # <<>> )
       => lastCall.result[1] = [name |-> "user.name", type |-> Str("text")]
  /\ ( /\ lastCall.op = "getFields"
       /\ lastCall.arg = <<Str("p"), Undefined>>
       /\ Has(perIndexTypes, "p") )
       => lastCall.result =
            << [name |-> "name", type |-> Str("text")],
               [name |-> "addr.city", type |-> Str("keyword")],
               [name |-> "title", type |-> Str("text")],
               [name |-> "title.raw", type |-> Str("keyword")],
               [name |-> "label", type |-> Str("text")],
               [name |-> "lc", type |-> Str("keyword")] >>

\* C17 witness: getFields has returned the fields of the index whose
\* mapping has fields with a path other than "full", with path "full" and
\* without path
PathsApplied ==
  /\ lastCall.op = "getFields"
  /\ lastCall.arg = <<Str("p"), Undefined>>
  /\ Has(perIndexTypes, "p")
  /\ Len(lastCall.result) = 6

ResponseLoaded(k) ==
  CASE k = "fields" ->
         LET expected == loadMappings(EmptyStore,
                           IF ObjectKeysLength(Doc(cluster.fields)) > MappingSizeCap
                           THEN Obj(<<>>) ELSE Doc(cluster.fields)).perIndexTypes
         IN \A i \in 1..Len(expected) :
              /\ Has(perIndexTypes', expected[i][1])
              /\ Lookup(perIndexTypes', expected[i][1]) = expected[i][2]
    [] k = "indices" ->
         DeclaredAliases(perAliasIndices') =
           DeclaredAliases(loadAliases(EmptyStore, Doc(cluster.indices)).perAliasIndices)
    [] OTHER -> templates' = loadTemplates(EmptyStore, Doc(cluster.templates)).templates

\* C19: a fetch in flight when retrieveAutoCompleteInfo or
\* clearSubscriptions is called is not aborted: whenever a fetch is
\* fulfilled, whatever calls were made and whatever other cycles have
\* loaded since it was sent, its response is loaded into the store.
InFlightFetchStillLoads ==
  [][\A id \in DOMAIN cycles : \A k \in Sections :
       ( /\ id \in DOMAIN cycles'
         /\ cycles[id].status[k] = "sent"
         /\ cycles'[id].status[k] = "fulfilled" ) => ResponseLoaded(k)]_vars

\* C19 witness: two cycles are in flight together and responses of both
\* were loaded: the aliases response of one has added the index c to
\* perIndexTypes, and a mappings response loaded after it has replaced
\* perIndexTypes.
OverlappingCyclesLoaded ==
  /\ Cardinality(DOMAIN cycles) = 2
  /\ \A id \in DOMAIN cycles : cycles[id].status["fields"] = "fulfilled"
  /\ \E id \in DOMAIN cycles : cycles[id].status["indices"] = "fulfilled"
  /\ \E id \in DOMAIN cycles : cycles[id].status["indices"] = "sent"
  /\ Has(perAliasIndices, "_all")
  /\ "c" \in Range(Lookup(perAliasIndices, "_all"))
  /\ ~Has(perIndexTypes, "c")

\* C20: when the timer fires while settings.getPolling() returns false, no
\* request is sent and no timer is scheduled, the store is unchanged; and
\* while no cycle is in flight and no timer is pending, a cycle starts only
\* by a call of retrieveAutoCompleteInfo from outside.
TimerIdleWhilePollingOff ==
  [][/\ \A id \in DOMAIN timers :
          (TimerFires(id) /\ ~polling) =>
            /\ cycles' = cycles
            /\ microtasks' = microtasks
            /\ DOMAIN timers' = DOMAIN timers \ {id}
            /\ UNCHANGED storeVars
     /\ (cycles = <<>> /\ timers = <<>>) =>
          /\ timers' = <<>>
          /\ \A id \in DOMAIN cycles' : cycles'[id].caller = "outside"]_vars

\* C20 witness: the store is loaded, polling is off, the timer that
\* pollTimeoutId refers to is gone and the poller is idle
IdleAfterTimerPollingOff ==
  /\ ~polling
  /\ pollTimeoutId # 0
  /\ timers = <<>>
  /\ cycles = <<>>
  /\ microtasks = <<>>
  /\ perIndexTypes # <<>>

====
